---- MODULE Spec2Model ----
(***************************************************************************)
(* Model of BAC0's recurring task scheduler (BAC0/tasks/TaskManager.py)    *)
(* and of the device liveness sweep built on it (BAC0/scripts/Lite.py).    *)
(*                                                                         *)
(* The specifications of the module:                                       *)
(*   Spec        the Task objects, the Task.tasks registry and the asyncio *)
(*               tasks ("loops") that run Task.execute();                   *)
(*   SweepSpec   the weak device registry of Lite and the liveness sweep   *)
(*               Lite.ping_registered_devices(), called as a method;       *)
(*   MonitorSpec the same sweep as the payload of the monitor Task;        *)
(*   CloseSpec   the device registry and Lite.disconnect();                *)
(*   PairSpec    several Tasks, each started once, on one event loop;      *)
(*   LatencySpec Tasks whose runs come late by more than high_latency;     *)
(*   SortSpec    list.sort() on a list of Tasks, with Task.__lt__.         *)
(***************************************************************************)
EXTENDS Integers, Sequences, FiniteSets, TLC

\* ------------------------------------------------------------------ bounds
MaxTasks == 1      \* Task objects
MaxLoops == 2      \* asyncio tasks that start() can create in one behaviour
MaxTime == 7       \* last value of the clock time.time()
TickStep == 5      \* time units between two observations of the clock
MaxJitter == 1     \* random() * 10, as whole time units
MaxDevices == 2    \* device handles
PairTasks == 2     \* Tasks started side by side
MaxList == 3       \* length of a list of Tasks that is sorted
StallStep == 130   \* time units the event loop is held up at a stretch
MaxStall == 270    \* last value of the clock after such a stretch

TaskIds == 1..MaxTasks
LoopIds == 1..MaxLoops
DevIds == 1..MaxDevices
PairIds == 1..PairTasks
ListIds == 1..MaxList
\* values of the constructor argument `delay`: negative, 0 (one shot),
\* below the floor of 5, above it
Delays == {-1, 0, 3, 6}

\* Task.high_latency
high_latency == 60

VARIABLES
    now,           \* time.time()
    T,             \* the Task objects: T[t] is the instance with id t
    tasks,         \* Task.tasks, the registry (a Python list)
    L,             \* the asyncio tasks made by start(): one per execute() coroutine
    nloops,        \* how many asyncio tasks were created so far
    stoppedLoops,  \* history: loops of the Tasks that a stopAllTasks() found registered
    stopCalled,    \* history: Tasks on which stop() was called since their last start()
    registry,      \* Lite._registered_devices (insertion-ordered weak dict, by id)
    strong,        \* devices that still have a strong owner outside the registry
    D,             \* the device handles: D[d] is the device with id d
    sweep,         \* position of ping_registered_devices(): status, snapshot, index
    calls,         \* calls the current sweep made on its collaborators, in order
    visited,       \* history: devices the current sweep has checked
    pingHigh,      \* history: devices whose ping left ping_failures > 3 in this sweep
    matched,       \* history: generic devices whose name read matched in this sweep
    monitor,       \* the loop of Lite._ping_task, the Task whose payload is the sweep
    closing,       \* position of Lite.disconnect(): status, snapshot, index, devices seen
    expected,      \* history: devices registered, not unregistered since, and alive
    listing        \* a list of Tasks: as it was made, as it is, whether sort() ran

taskVars == <<now, T, tasks, L, nloops, stoppedLoops, stopCalled>>
liteVars == <<registry, strong, D, sweep, calls, visited, pingHigh, matched,
              monitor, closing, expected>>
sortVars == <<listing>>
nonTaskVars == <<liteVars, sortVars>>
nonLiteVars == <<taskVars, sortVars>>
vars == <<now, T, tasks, L, nloops, stoppedLoops, stopCalled,
          registry, strong, D, sweep, calls, visited, pingHigh, matched,
          monitor, closing, expected, listing>>

\* ------------------------------------------------------------- arithmetic
\* The running averages are Python floats obtained by repeated halving:
\* they are kept exactly, as n / 2^e in lowest terms.
RECURSIVE Pow2(_)
Pow2(e) == IF e = 0 THEN 1 ELSE 2 * Pow2(e - 1)

RECURSIVE Norm(_)
Norm(q) == IF q.e > 0 /\ q.n % 2 = 0 THEN Norm([n |-> q.n \div 2, e |-> q.e - 1])
           ELSE q

Whole(x) == [n |-> x, e |-> 0]

\* (q + x) / 2 for a float q and a whole x
HalfSum(q, x) == Norm([n |-> q.n + x * Pow2(q.e), e |-> q.e + 1])

\* q > x
Above(q, x) == q.n > x * Pow2(q.e)

Range(s) == {s[i] : i \in 1..Len(s)}

\* ------------------------------------------------------------------- Task
\* as EffectiveDelay, without the floor of 5
EffectiveDelayNoFloor(delay) == IF delay > 0 THEN delay ELSE 0

\* Task.__init__, lines 58-61: the delay the Task keeps
EffectiveDelay(delay) ==
    IF delay > 0 THEN (IF delay >= 5 THEN delay ELSE 5) ELSE 0

\* Task.__init__, run when the clock shows 1: None is written 0 (a time
\* stamp is never falsy, as with time.time()); task_handle is self._task,
\* requested the argument `delay` as it was passed
NewTask(delay, jitter) ==
    [requested |-> delay, delay |-> EffectiveDelay(delay),
     previous_execution |-> 0,
     average_execution_delay |-> Whole(0),
     average_latency |-> Whole(0),
     next_execution |-> 1 + delay + jitter,
     execution_time |-> 0, count |-> 0,
     task_handle |-> 0, aio_task |-> 0]

\* an asyncio task that was not created yet
NoLoop == [task |-> 0, pc |-> "none", start_time |-> 0, wake |-> 0,
           must_cancel |-> FALSE, begun |-> 0, completed |-> 0,
           warnings |-> 0]

\* Task.execute, lines 109-111: the warnings a loop has logged, after the
\* check of the smoothed latency against Task.high_latency
Warned(l) ==
    IF Above(T[L[l].task].average_latency, high_latency)
    THEN L[l].warnings + 1 ELSE L[l].warnings

\* asyncio.Task.done()
LoopDone(l) == L[l].pc \in {"finished", "failed", "cancelled"}

\* Task.done
done(t) == IF T[t].aio_task # 0 THEN LoopDone(T[t].aio_task) ELSE FALSE

\* Task.number_of_tasks
number_of_tasks == Len(tasks)

\* the fields execute() maintains
TimingFields(t) ==
    <<T[t].count, T[t].previous_execution, T[t].next_execution,
      T[t].average_execution_delay, T[t].average_latency, T[t].execution_time>>

\* as Start, with aio_task kept on the class, one for all Tasks
StartOnClass(t) ==
    /\ nloops < MaxLoops
    /\ nloops' = nloops + 1
    /\ L' = [L EXCEPT ![nloops + 1] = [NoLoop EXCEPT !.task = t, !.pc = "created"]]
    /\ T' = [u \in DOMAIN T |-> [T[u] EXCEPT !.aio_task = nloops + 1]]
    /\ tasks' = Append(tasks, t)
    /\ stopCalled' = stopCalled \ {t}
    /\ UNCHANGED <<now, stoppedLoops>>
    /\ UNCHANGED nonTaskVars

\* Task.start
Start(t) ==
    /\ nloops < MaxLoops
    /\ nloops' = nloops + 1
    /\ L' = [L EXCEPT ![nloops + 1] = [NoLoop EXCEPT !.task = t, !.pc = "created"]]
    /\ T' = [T EXCEPT ![t].aio_task = nloops + 1]
    /\ tasks' = Append(tasks, t)
    /\ stopCalled' = stopCalled \ {t}
    /\ UNCHANGED <<now, stoppedLoops>>
    /\ UNCHANGED nonTaskVars

\* as Cancelled, with the request also recorded on a finished task
CancelledAlways(loops, l) == [loops EXCEPT ![l].must_cancel = TRUE]

\* asyncio.Task.cancel(): nothing for a finished task, else the
\* CancelledError is thrown into the coroutine when it is next resumed
Cancelled(loops, l) ==
    IF loops[l].pc \in {"created", "payload", "sleeping"}
    THEN [loops EXCEPT ![l].must_cancel = TRUE]
    ELSE loops

\* as Run, with the increment of count left out
RunCountsLater(l) ==
    LET t == L[l].task IN
    /\ \/ L[l].pc = "created"
       \/ L[l].pc = "sleeping" /\ now >= L[l].wake
    /\ ~L[l].must_cancel
    /\ IF T[t].delay > 0
       THEN T' = [T EXCEPT ![t].average_latency =
                               HalfSum(@, now - T[t].next_execution)]
       ELSE T' = T
    /\ L' = [L EXCEPT ![l].pc = "payload", ![l].start_time = now,
                      ![l].begun = @ + 1]
    /\ UNCHANGED <<now, tasks, nloops, stoppedLoops, stopCalled>>
    /\ UNCHANGED nonTaskVars

\* Task.execute, lines 79-99 (recurring) and 119-127 (one shot): the loop
\* is resumed (first step of the coroutine, or the sleep is over) and runs
\* up to the await of the payload
Run(l) ==
    LET t == L[l].task IN
    /\ \/ L[l].pc = "created"
       \/ L[l].pc = "sleeping" /\ now >= L[l].wake
    /\ ~L[l].must_cancel
    /\ IF T[t].delay > 0
       THEN T' = [T EXCEPT ![t].count = @ + 1,
                           ![t].average_latency =
                               HalfSum(@, now - T[t].next_execution)]
       ELSE T' = T
    /\ L' = [L EXCEPT ![l].pc = "payload", ![l].start_time = now,
                      ![l].begun = @ + 1]
    /\ UNCHANGED <<now, tasks, nloops, stoppedLoops, stopCalled>>
    /\ UNCHANGED nonTaskVars

\* as PayloadReturn, with a high latency ending the loop after the warning
PayloadReturnLatencyFatal(l) ==
    LET t == L[l].task IN
    /\ L[l].pc = "payload"
    /\ ~L[l].must_cancel
    /\ IF T[t].delay > 0 /\ Above(T[t].average_latency, high_latency)
       THEN /\ T' = T
            /\ L' = [L EXCEPT ![l].pc = "failed", ![l].warnings = Warned(l)]
       ELSE IF T[t].delay > 0
       THEN /\ T' = [T EXCEPT
                       ![t].average_execution_delay =
                           IF T[t].previous_execution # 0
                           THEN HalfSum(@, L[l].start_time - T[t].previous_execution)
                           ELSE Whole(T[t].delay),
                       ![t].execution_time = now - L[l].start_time,
                       ![t].previous_execution = L[l].start_time,
                       ![t].next_execution = now + T[t].delay]
            /\ L' = [L EXCEPT ![l].pc = "sleeping", ![l].wake = now + T[t].delay,
                              ![l].completed = @ + 1]
       ELSE /\ T' = T
            /\ L' = [L EXCEPT ![l].pc = "finished", ![l].completed = @ + 1]
    /\ UNCHANGED <<now, tasks, nloops, stoppedLoops, stopCalled>>
    /\ UNCHANGED nonTaskVars

\* as PayloadReturn, with a sleep of 0 instead of `delay`
PayloadReturnNoSleep(l) ==
    LET t == L[l].task IN
    /\ L[l].pc = "payload"
    /\ ~L[l].must_cancel
    /\ IF T[t].delay > 0
       THEN /\ T' = [T EXCEPT
                       ![t].average_execution_delay =
                           IF T[t].previous_execution # 0
                           THEN HalfSum(@, L[l].start_time - T[t].previous_execution)
                           ELSE Whole(T[t].delay),
                       ![t].execution_time = now - L[l].start_time,
                       ![t].previous_execution = L[l].start_time,
                       ![t].next_execution = now + T[t].delay]
            /\ L' = [L EXCEPT ![l].pc = "sleeping", ![l].wake = now,
                              ![l].completed = @ + 1,
                              ![l].warnings = Warned(l)]
       ELSE /\ T' = T
            /\ L' = [L EXCEPT ![l].pc = "finished", ![l].completed = @ + 1]
    /\ UNCHANGED <<now, tasks, nloops, stoppedLoops, stopCalled>>
    /\ UNCHANGED nonTaskVars

\* as PayloadReturn, with the one shot branch rescheduled like the other
PayloadReturnOneShotSleeps(l) ==
    LET t == L[l].task IN
    /\ L[l].pc = "payload"
    /\ ~L[l].must_cancel
    /\ T' = [T EXCEPT
               ![t].average_execution_delay =
                   IF T[t].previous_execution # 0
                   THEN HalfSum(@, L[l].start_time - T[t].previous_execution)
                   ELSE Whole(T[t].delay),
               ![t].execution_time = now - L[l].start_time,
               ![t].previous_execution = L[l].start_time,
               ![t].next_execution = now + T[t].delay]
    /\ L' = [L EXCEPT ![l].pc = "sleeping", ![l].wake = now + T[t].delay,
                      ![l].completed = @ + 1,
                      ![l].warnings = Warned(l)]
    /\ UNCHANGED <<now, tasks, nloops, stoppedLoops, stopCalled>>
    /\ UNCHANGED nonTaskVars

\* Task.execute, lines 100-117: the payload returned; the statistics are
\* updated and the loop sleeps for `delay` (one shot, line 127: the
\* coroutine returns)
PayloadReturn(l) ==
    LET t == L[l].task IN
    /\ L[l].pc = "payload"
    /\ ~L[l].must_cancel
    /\ IF T[t].delay > 0
       THEN /\ T' = [T EXCEPT
                       ![t].average_execution_delay =
                           IF T[t].previous_execution # 0
                           THEN HalfSum(@, L[l].start_time - T[t].previous_execution)
                           ELSE Whole(T[t].delay),
                       ![t].execution_time = now - L[l].start_time,
                       ![t].previous_execution = L[l].start_time,
                       ![t].next_execution = now + T[t].delay]
            /\ L' = [L EXCEPT ![l].pc = "sleeping", ![l].wake = now + T[t].delay,
                              ![l].completed = @ + 1,
                              ![l].warnings = Warned(l)]
       ELSE /\ T' = T
            /\ L' = [L EXCEPT ![l].pc = "finished", ![l].completed = @ + 1]
    /\ UNCHANGED <<now, tasks, nloops, stoppedLoops, stopCalled>>
    /\ UNCHANGED nonTaskVars

\* as PayloadRaise, with the failed Task taken out of Task.tasks
PayloadRaiseRemoves(l) ==
    /\ L[l].pc = "payload"
    /\ ~L[l].must_cancel
    /\ L' = [L EXCEPT ![l].pc = "failed"]
    /\ tasks' = SelectSeq(tasks, LAMBDA u : u # L[l].task)
    /\ UNCHANGED <<now, T, nloops, stoppedLoops, stopCalled>>
    /\ UNCHANGED nonTaskVars

\* as PayloadRaise, with the failure of a recurring Task caught and the
\* run retried after the delay
PayloadRaiseSwallowed(l) ==
    /\ L[l].pc = "payload"
    /\ ~L[l].must_cancel
    /\ L' = [L EXCEPT ![l].pc = IF T[L[l].task].delay > 0 THEN "sleeping"
                                ELSE "failed",
                      ![l].wake = now + T[L[l].task].delay]
    /\ UNCHANGED <<now, T, tasks, nloops, stoppedLoops, stopCalled>>
    /\ UNCHANGED nonTaskVars

\* Task.execute, lines 91-99 and 119-127: the awaited payload raises (fn,
\* an overridden task(), or the NotImplementedError of Task.task); no
\* handler is around it, so the exception ends the coroutine
PayloadRaise(l) ==
    /\ L[l].pc = "payload"
    /\ ~L[l].must_cancel
    /\ L' = [L EXCEPT ![l].pc = "failed"]
    /\ UNCHANGED <<now, T, tasks, nloops, stoppedLoops, stopCalled>>
    /\ UNCHANGED nonTaskVars

\* the event loop resumes a cancelled asyncio task: CancelledError unwinds
\* execute() from the await it was suspended in
DeliverCancel(l) ==
    /\ L[l].must_cancel
    /\ L' = [L EXCEPT ![l].pc = "cancelled", ![l].must_cancel = FALSE]
    /\ UNCHANGED <<now, T, tasks, nloops, stoppedLoops, stopCalled>>
    /\ UNCHANGED nonTaskVars

\* Task.stop: cancels self._task, which no code of the class ever sets:
\* with None the call raises AttributeError and cancels nothing
Stop(t) ==
    /\ L' = IF T[t].task_handle # 0 THEN Cancelled(L, T[t].task_handle) ELSE L
    /\ stopCalled' = stopCalled \cup {t}
    /\ UNCHANGED <<now, T, tasks, nloops, stoppedLoops>>
    /\ UNCHANGED nonTaskVars

\* Task.clean_tasklist
CleanTasklist ==
    /\ tasks' = <<>>
    /\ UNCHANGED <<now, T, L, nloops, stoppedLoops, stopCalled>>
    /\ UNCHANGED nonTaskVars

\* the loop of stopAllTasks, lines 27-28: each.aio_task.cancel() for each
\* entry of Task.tasks
RECURSIVE CancelEach(_, _)
CancelEach(loops, s) ==
    IF s = <<>> THEN loops
    ELSE CancelEach(Cancelled(loops, T[Head(s)].aio_task), Tail(s))

\* stopAllTasks (it has no await: one step)
StopAllTasks ==
    /\ L' = CancelEach(L, tasks)
    /\ tasks' = <<>>
    /\ stoppedLoops' = stoppedLoops \cup
           {l \in 1..nloops : L[l].task \in Range(tasks)}
    /\ UNCHANGED <<now, T, nloops, stopCalled>>
    /\ UNCHANGED nonTaskVars

\* time passes
Tick ==
    /\ now + TickStep <= MaxTime
    /\ now' = now + TickStep
    /\ UNCHANGED <<T, tasks, L, nloops, stoppedLoops, stopCalled>>
    /\ UNCHANGED nonTaskVars

TaskInit ==
    /\ now = 1
    /\ T \in [TaskIds -> {NewTask(delay, jitter) :
                              delay \in Delays, jitter \in 0..MaxJitter}]
    /\ tasks = <<>>
    /\ L = [l \in LoopIds |-> NoLoop]
    /\ nloops = 0
    /\ stoppedLoops = {}
    /\ stopCalled = {}

\* a long time passes: the Task is started late, or something blocks the
\* event loop
Stall ==
    /\ now + StallStep <= MaxStall
    /\ now' = now + StallStep
    /\ UNCHANGED <<T, tasks, L, nloops, stoppedLoops, stopCalled>>
    /\ UNCHANGED nonTaskVars

\* the first start() of a Task
PairStart(t) ==
    /\ T[t].aio_task = 0
    /\ Start(t)

\* Tasks that are started once and whose runs come late
LatencyNext ==
    \/ \E t \in TaskIds : PairStart(t)
    \/ \E l \in LoopIds : Run(l)
    \/ \E l \in LoopIds : PayloadReturn(l)
    \/ \E l \in LoopIds : PayloadRaise(l)
    \/ Tick
    \/ Stall

\* Tasks that are started once and left to run: no stop, no cancellation
PairNext ==
    \/ \E t \in PairIds : PairStart(t)
    \/ \E l \in LoopIds : Run(l)
    \/ \E l \in LoopIds : PayloadReturn(l)
    \/ \E l \in LoopIds : PayloadRaise(l)
    \/ Tick

PairTasksInit ==
    /\ now = 1
    /\ T \in [PairIds -> {NewTask(delay, jitter) :
                              delay \in Delays, jitter \in 0..MaxJitter}]
    /\ tasks = <<>>
    /\ L = [l \in LoopIds |-> NoLoop]
    /\ nloops = 0
    /\ stoppedLoops = {}
    /\ stopCalled = {}

\* ------------------------------------------------------------- comparison
\* as lt, with the natural ascending order
ltNatural(self, other) == self.next_execution < other.next_execution

\* Task.__lt__
lt(self, other) == self.next_execution > other.next_execution

\* list.sort() uses only __lt__ and is stable: x goes behind every item
\* it is not less than
RECURSIVE Insert(_, _)
Insert(s, x) ==
    IF s = <<>> THEN <<x>>
    ELSE IF lt(T[x], T[Head(s)]) THEN <<x>> \o s
    ELSE <<Head(s)>> \o Insert(Tail(s), x)

RECURSIVE Sorted(_)
Sorted(s) ==
    IF s = <<>> THEN <<>>
    ELSE Insert(Sorted(SubSeq(s, 1, Len(s) - 1)), s[Len(s)])

NoListing == [input |-> <<>>, items |-> <<>>, status |-> "none"]

\* items.sort() on a list of Tasks
Sort ==
    /\ listing.status = "unsorted"
    /\ listing' = [listing EXCEPT !.items = Sorted(@), !.status = "sorted"]
    /\ UNCHANGED <<taskVars, liteVars>>

SortNext == Sort

\* Tasks as the constructor leaves them, and a list of some of them
SortListInit ==
    /\ now = 1
    /\ T \in [ListIds -> {NewTask(delay, 0) : delay \in Delays}]
    /\ tasks = <<>>
    /\ L = <<>>
    /\ nloops = 0
    /\ stoppedLoops = {}
    /\ stopCalled = {}
    /\ \E s \in UNION {[1..n -> ListIds] : n \in 0..MaxList} :
           listing = [input |-> s, items |-> s, status |-> "unsorted"]

Next ==
    \/ \E t \in TaskIds : Start(t)
    \/ \E l \in LoopIds : Run(l)
    \/ \E l \in LoopIds : PayloadReturn(l)
    \/ \E l \in LoopIds : PayloadRaise(l)
    \/ \E l \in LoopIds : DeliverCancel(l)
    \/ \E t \in TaskIds : Stop(t)
    \/ CleanTasklist
    \/ StopAllTasks
    \/ Tick


\* ------------------------------------------------------------------- Lite
\* the classes the sweep tells apart with isinstance (line 217)
ConnectedClasses == {"RPDeviceConnected", "RPMDeviceConnected"}
DeviceClasses == ConnectedClasses \cup {"DeviceDisconnected"}

\* what a manual read of objectName can return
Names == 1..(MaxDevices + 1)

\* a device handle as BAC0.device() returns it: each.properties
NewDevice(d, cls) ==
    [cls |-> cls, ping_failures |-> 0, name |-> d, pollDelay |-> 10 * d]

\* one record per call made on a collaborator
Call(op, d, unregister, network, delay) ==
    [op |-> op, dev |-> d, unregister |-> unregister, network |-> network,
     delay |-> delay]

RECURSIVE Without(_, _)
Without(s, d) ==
    IF s = <<>> THEN <<>>
    ELSE IF Head(s) = d THEN Without(Tail(s), d)
    ELSE <<Head(s)>> \o Without(Tail(s), d)

\* Lite.registered_devices: list(self._registered_devices.values())
registered_devices == registry

\* neither for loop (lines 216 and 347) is under way: both run without
\* an await, so nothing else runs inside them
Idle == sweep.status # "running" /\ closing.status # "running"

\* as Iterated, with a live view of the registry instead of the list
IteratedLive(it, reg) == reg

\* the list a for loop iterates: the value registered_devices returned when
\* the loop began, whatever the registry `reg` holds by now
Iterated(it, reg) == it.snapshot

NoSweep == [status |-> "idle", snapshot |-> <<>>, idx |-> 1]

\* sweep, calls, visited, pingHigh and matched describe the last sweep for
\* as long as the registry is as that sweep left it: an operation on the
\* registry ends the record
SweepForgotten ==
    /\ sweep' = NoSweep
    /\ calls' = <<>>
    /\ visited' = {}
    /\ pingHigh' = {}
    /\ matched' = {}

\* as RegisterDevice, with a list that is appended to
RegisterDeviceAppends(d) ==
    /\ Idle
    /\ d \in strong
    /\ registry' = Append(registry, d)
    /\ expected' = expected \cup {d}
    /\ SweepForgotten
    /\ UNCHANGED <<strong, D>>
    /\ UNCHANGED <<monitor, closing>>
    /\ UNCHANGED nonLiteVars

\* Lite.register_device: self._registered_devices[id(device)] = device
RegisterDevice(d) ==
    /\ Idle
    /\ d \in strong
    /\ registry' = IF d \in Range(registry) THEN registry ELSE Append(registry, d)
    /\ expected' = expected \cup {d}
    /\ SweepForgotten
    /\ UNCHANGED <<strong, D>>
    /\ UNCHANGED <<monitor, closing>>
    /\ UNCHANGED nonLiteVars

\* Lite.unregister_device: del self._registered_devices[id(device)], a
\* KeyError is passed over
UnregisterDevice(d) ==
    /\ Idle
    /\ d \in strong
    /\ registry' = Without(registry, d)
    /\ expected' = expected \ {d}
    /\ SweepForgotten
    /\ UNCHANGED <<strong, D>>
    /\ UNCHANGED <<monitor, closing>>
    /\ UNCHANGED nonLiteVars

\* as Release, with a registry that owns its values (a plain dict)
ReleaseOwned(d) ==
    /\ Idle
    /\ d \in strong
    /\ strong' = strong \ {d}
    /\ registry' = registry
    /\ expected' = expected \ {d}
    /\ SweepForgotten
    /\ UNCHANGED <<D>>
    /\ UNCHANGED <<monitor, closing>>
    /\ UNCHANGED nonLiteVars

\* the last strong owner drops the handle: the WeakValueDictionary of
\* line 121 loses the entry
Release(d) ==
    /\ Idle
    /\ d \in strong
    /\ strong' = strong \ {d}
    /\ registry' = Without(registry, d)
    /\ expected' = expected \ {d}
    /\ SweepForgotten
    /\ UNCHANGED <<D>>
    /\ UNCHANGED <<monitor, closing>>
    /\ UNCHANGED nonLiteVars

\* Lite.ping_registered_devices, line 216: the snapshot is taken (here
\* by a caller of the method, below by the monitor)
SweepStart ==
    /\ Idle
    /\ sweep' = [status |-> IF registered_devices = <<>> THEN "done" ELSE "running",
                 snapshot |-> registered_devices, idx |-> 1]
    /\ calls' = <<>>
    /\ visited' = {}
    /\ pingHigh' = {}
    /\ matched' = {}
    /\ UNCHANGED <<registry, strong, D>>
    /\ UNCHANGED <<monitor, closing, expected>>
    /\ UNCHANGED nonLiteVars

\* Lite.__init__, lines 125-129: the monitor is made, and started if ping
MonitorStart ==
    /\ monitor = "notstarted"
    /\ monitor' = "sleeping"
    /\ UNCHANGED <<registry, strong, D, sweep, calls, visited, pingHigh, matched>>
    /\ UNCHANGED <<closing, expected>>
    /\ UNCHANGED nonLiteVars

\* Task.execute, lines 78-99, for the monitor: its loop is resumed and
\* awaits the payload, which is the sweep
MonitorRun ==
    /\ monitor = "sleeping"
    /\ Idle
    /\ sweep' = [status |-> IF registered_devices = <<>> THEN "done" ELSE "running",
                 snapshot |-> registered_devices, idx |-> 1]
    /\ monitor' = IF registered_devices = <<>> THEN "sleeping" ELSE "sweeping"
    /\ calls' = <<>>
    /\ visited' = {}
    /\ pingHigh' = {}
    /\ matched' = {}
    /\ UNCHANGED <<registry, strong, D>>
    /\ UNCHANGED <<closing, expected>>
    /\ UNCHANGED nonLiteVars

\* the asyncio task of the monitor is cancelled (stopAllTasks, line 28)
\* while it sleeps
MonitorCancel ==
    /\ monitor = "sleeping"
    /\ monitor' = "cancelled"
    /\ UNCHANGED <<registry, strong, D, sweep, calls, visited, pingHigh, matched>>
    /\ UNCHANGED <<closing, expected>>
    /\ UNCHANGED nonLiteVars

\* Task.execute, lines 91-117, for the monitor: when the sweep returns
\* the loop sleeps again; when it raises, no handler is around the
\* payload and the loop ends
MonitorAfter(status) ==
    IF monitor # "sweeping" THEN monitor
    ELSE IF status = "done" THEN "sleeping"
    ELSE IF status = "raised" THEN "failed"
    ELSE "sweeping"

\* Device.ping: a confirmed response resets the counter, a missing one
\* counts; the call can also raise
PingOutcomes == {"ok", "fail", "raise", "numerous"}

Pinged(dev, outcome) ==
    IF outcome = "ok" THEN [dev EXCEPT !.ping_failures = 0]
    ELSE IF outcome = "fail" THEN [dev EXCEPT !.ping_failures = @ + 1]
    ELSE dev

\* Device.disconnect(unregister): the handle becomes a disconnected device;
\* it leaves the registry only with unregister=True
Disconnected(dev) == [dev EXCEPT !.cls = "DeviceDisconnected"]

\* Device.connect(network): the handle becomes a connected device again
Connected(dev, cls) == [dev EXCEPT !.cls = cls]

\* after the check of snapshot[idx]: next device, or the sweep returns
Advanced == [sweep EXCEPT !.idx = @ + 1,
                          !.status = IF sweep.idx >= Len(Iterated(sweep, registry))
                                     THEN "done" ELSE "running"]

\* an exception leaves the for loop of line 216
Raised == [sweep EXCEPT !.status = "raised"]

\* lines 220-236 with the threshold of line 227 as a parameter
PingCheckAt(each, outcome, threshold, unregister) ==
    LET pinged == Pinged(D[each], outcome)
        numerous == outcome = "numerous" \/
                    (outcome # "raise" /\ pinged.ping_failures > threshold)
    IN
    /\ D[each].cls \in ConnectedClasses
    /\ visited' = visited \cup {each}
    /\ pingHigh' = IF outcome # "raise" /\ pinged.ping_failures > 3
                   THEN pingHigh \cup {each} ELSE pingHigh
    /\ matched' = matched
    /\ strong' = strong
    /\ IF outcome = "raise"
       THEN /\ D' = [D EXCEPT ![each] = pinged]
            /\ sweep' = Raised
            /\ UNCHANGED <<registry, calls>>
       ELSE IF numerous
       THEN /\ D' = [D EXCEPT ![each] = Disconnected(pinged)]
            /\ calls' = Append(calls, Call("disconnect", each, unregister, "", 0))
            /\ registry' = IF unregister THEN Without(registry, each) ELSE registry
            /\ sweep' = Advanced
       ELSE /\ D' = [D EXCEPT ![each] = pinged]
            /\ sweep' = Advanced
            /\ UNCHANGED <<registry, calls>>

\* as PingCheck, with the default unregister=True of Device.disconnect
PingCheckUnregisters(each, outcome) == PingCheckAt(each, outcome, 3, TRUE)

\* as PingCheck, with the threshold off by one
PingCheckAbove4(each, outcome) == PingCheckAt(each, outcome, 4, FALSE)

\* Lite.ping_registered_devices, lines 217-236: a device of one of the
\* connected classes is pinged, and disconnected (unregister=False) when
\* its counter is above 3
PingCheck(each, outcome) == PingCheckAt(each, outcome, 3, FALSE)

\* as ReadCheck, without the reset of ping_failures and with a fixed delay
ReadCheckNoReset(each, result, cls) ==
    /\ D[each].cls \notin ConnectedClasses
    /\ visited' = visited \cup {each}
    /\ UNCHANGED <<registry, strong, pingHigh>>
    /\ IF result = 0
       THEN /\ sweep' = Raised
            /\ UNCHANGED <<D, calls, matched>>
       ELSE IF result = D[each].name
       THEN /\ D' = [D EXCEPT ![each] = Connected(D[each], cls)]
            /\ calls' = calls \o
                   <<Call("connect", each, FALSE, "self", 0),
                     Call("poll", each, FALSE, "", 10)>>
            /\ matched' = matched \cup {each}
            /\ sweep' = Advanced
       ELSE /\ sweep' = Advanced
            /\ UNCHANGED <<D, calls, matched>>

\* Lite.ping_registered_devices, lines 238-250: any other device is read
\* by hand; `result` is the name read, 0 when self.read raises
ReadCheck(each, result, cls) ==
    /\ D[each].cls \notin ConnectedClasses
    /\ visited' = visited \cup {each}
    /\ UNCHANGED <<registry, strong, pingHigh>>
    /\ IF result = 0
       THEN /\ sweep' = Raised
            /\ UNCHANGED <<D, calls, matched>>
       ELSE IF result = D[each].name
       THEN /\ D' = [D EXCEPT ![each] =
                        Connected([D[each] EXCEPT !.ping_failures = 0], cls)]
            /\ calls' = calls \o
                   <<Call("connect", each, FALSE, "self", 0),
                     Call("poll", each, FALSE, "", D[each].pollDelay)>>
            /\ matched' = matched \cup {each}
            /\ sweep' = Advanced
       ELSE /\ sweep' = Advanced
            /\ UNCHANGED <<D, calls, matched>>

\* one iteration of the for loop of line 216
SweepPing ==
    /\ sweep.status = "running"
    /\ \E outcome \in PingOutcomes :
           PingCheck(Iterated(sweep, registry)[sweep.idx], outcome)
    /\ monitor' = MonitorAfter(sweep'.status)
    /\ UNCHANGED <<closing, expected>>
    /\ UNCHANGED nonLiteVars

SweepRead ==
    /\ sweep.status = "running"
    /\ \E result \in {0} \cup Names, cls \in ConnectedClasses :
           ReadCheck(Iterated(sweep, registry)[sweep.idx], result, cls)
    /\ monitor' = MonitorAfter(sweep'.status)
    /\ UNCHANGED <<closing, expected>>
    /\ UNCHANGED nonLiteVars

\* Lite.disconnect, line 347: the snapshot is taken
DisconnectStart ==
    /\ Idle
    /\ closing' = [status |-> IF registered_devices = <<>> THEN "done" ELSE "running",
                   snapshot |-> registered_devices, idx |-> 1, seen |-> <<>>]
    /\ UNCHANGED <<registry, strong, D, sweep, calls, visited, pingHigh, matched>>
    /\ UNCHANGED <<monitor, expected>>
    /\ UNCHANGED nonLiteVars

\* Lite.disconnect, line 348: each.disconnect(), with the default
\* unregister=True: the device takes itself out of the registry
DisconnectStep ==
    LET each == Iterated(closing, registry)[closing.idx]
        left == Without(registry, each)
    IN
    /\ closing.status = "running"
    /\ D' = [D EXCEPT ![each] = Disconnected(D[each])]
    /\ registry' = left
    /\ expected' = expected \ {each}
    /\ closing' = [closing EXCEPT
                      !.idx = @ + 1,
                      !.seen = Append(@, each),
                      !.status = IF closing.idx >= Len(Iterated(closing, left))
                                 THEN "done" ELSE "running"]
    /\ UNCHANGED <<strong, sweep, calls, visited, pingHigh, matched, monitor>>
    /\ UNCHANGED nonLiteVars

NotClosing == [status |-> "idle", snapshot |-> <<>>, idx |-> 1, seen |-> <<>>]

LiteInit ==
    /\ registry = <<>>
    /\ strong = DevIds
    /\ D \in [DevIds -> UNION {{NewDevice(d, cls) : cls \in DeviceClasses} :
                                  d \in DevIds}]
    /\ \A d \in DevIds : D[d].name = d
    /\ sweep = NoSweep
    /\ calls = <<>>
    /\ visited = {}
    /\ pingHigh = {}
    /\ matched = {}
    /\ monitor = "notstarted"
    /\ closing = NotClosing
    /\ expected = {}

SweepNext ==
    \/ \E d \in DevIds : RegisterDevice(d)
    \/ \E d \in DevIds : UnregisterDevice(d)
    \/ \E d \in DevIds : Release(d)
    \/ SweepStart
    \/ SweepPing
    \/ SweepRead

\* the sweeps as runs of the monitor Task
MonitorNext ==
    \/ \E d \in DevIds : RegisterDevice(d)
    \/ \E d \in DevIds : UnregisterDevice(d)
    \/ \E d \in DevIds : Release(d)
    \/ MonitorStart
    \/ MonitorRun
    \/ MonitorCancel
    \/ SweepPing
    \/ SweepRead

\* the registry and Lite.disconnect
CloseNext ==
    \/ \E d \in DevIds : RegisterDevice(d)
    \/ \E d \in DevIds : UnregisterDevice(d)
    \/ \E d \in DevIds : Release(d)
    \/ DisconnectStart
    \/ DisconnectStep

\* --------------------------------------------------------- specifications
\* the scheduler alone: no network is created
LiteIdle ==
    /\ registry = <<>>
    /\ strong = {}
    /\ D = <<>>
    /\ sweep = NoSweep
    /\ calls = <<>>
    /\ visited = {}
    /\ pingHigh = {}
    /\ matched = {}
    /\ monitor = "notstarted"
    /\ closing = NotClosing
    /\ expected = {}

\* the network alone: no Task but the monitor, whose runs are the sweeps
TaskIdle ==
    /\ now = 1
    /\ T = <<>>
    /\ tasks = <<>>
    /\ L = <<>>
    /\ nloops = 0
    /\ stoppedLoops = {}
    /\ stopCalled = {}

SortIdle == listing = NoListing

Init == TaskInit /\ LiteIdle /\ SortIdle

Spec == Init /\ [][Next]_vars

SweepInit == TaskIdle /\ LiteInit /\ SortIdle

SweepSpec == SweepInit /\ [][SweepNext]_vars

MonitorSpec == SweepInit /\ [][MonitorNext]_vars

CloseSpec == SweepInit /\ [][CloseNext]_vars

LatencySpec == Init /\ [][LatencyNext]_vars

PairInit == PairTasksInit /\ LiteIdle /\ SortIdle

PairSpec == PairInit /\ [][PairNext]_vars

SortInit == SortListInit /\ LiteIdle

SortSpec == SortInit /\ [][SortNext]_vars

\* ----------------------------------------------------------------- claims
RECURSIVE Total(_, _)
Total(f, n) == IF n = 0 THEN 0 ELSE f[n] + Total(f, n - 1)

LoopsOf(t) == {l \in 1..nloops : L[l].task = t}

\* payload runs of Task t that returned
CompletedRuns(t) ==
    Total([l \in LoopIds |-> IF L[l].task = t THEN L[l].completed ELSE 0], MaxLoops)

\* payload runs of Task t that were begun
BegunRuns(t) ==
    Total([l \in LoopIds |-> IF L[l].task = t THEN L[l].begun ELSE 0], MaxLoops)

\* loops of Task t whose last run was begun and did not return: it is in
\* progress, it raised, or it was cancelled inside the payload
OpenRuns(t) == {l \in LoopsOf(t) : L[l].begun > L[l].completed}

\* C1: once stopAllTasks() has been called the registry is empty and no
\* loop of a Task that was registered then begins another payload run.
C1_StopAllStopsEveryLoop ==
    [][/\ StopAllTasks => number_of_tasks' = 0
       /\ \A l \in stoppedLoops : L'[l].begun = L[l].begun]_vars

\* C2: the loop of a Task with delay 0 invokes the payload at most once,
\* is never put to sleep for another run, and has invoked the payload
\* exactly once when it has ended by itself.
C2_OneShotRunsOnce ==
    \A l \in 1..nloops :
        T[L[l].task].delay = 0 =>
            /\ L[l].begun <= 1
            /\ L[l].pc # "sleeping"
            /\ L[l].pc \in {"finished", "failed"} => L[l].begun = 1
            /\ L[l].pc = "finished" => L[l].completed = 1
            /\ L[l].pc = "payload" => L[l].begun = 1

C2_Witness ==
    \E l \in 1..nloops :
        /\ T[L[l].task].delay = 0
        /\ L[l].pc = "finished"
        /\ L[l].begun = 1
        /\ now > 1

\* C3: when the payload of a recurring Task raises, its loop ends as
\* failed; a failed loop stays failed and begins no further run; and while
\* that loop is the one the Task refers to (aio_task), done is true.
C3_FailureEndsLoop ==
    [][\A l \in 1..nloops :
         LET t == L[l].task IN
         T[t].delay > 0 =>
            /\ PayloadRaise(l) => L'[l].pc = "failed"
            /\ L[l].pc = "payload" /\ L'[l].pc = "sleeping" =>
                   L'[l].completed = L[l].completed + 1
            /\ L[l].pc = "failed" =>
                   L'[l].pc = "failed" /\ L'[l].begun = L[l].begun
            /\ L'[l].pc = "failed" /\ T'[t].aio_task = l => done(t)']_vars

C3_Witness ==
    \E l \in 1..nloops :
        /\ T[L[l].task].delay > 0
        /\ L[l].pc = "failed"
        /\ L[l].completed >= 1
        /\ T[L[l].task].aio_task = l
        /\ done(L[l].task)

\* C4: after stop() on a started recurring Task, no further payload run of
\* the Task begins and its timing fields never change again.
C4_StopFreezesTask ==
    [][\A t \in TaskIds :
         (t \in stopCalled /\ t \in stopCalled' /\ T[t].delay > 0
             /\ T[t].aio_task # 0) =>
            /\ TimingFields(t)' = TimingFields(t)
            /\ BegunRuns(t)' = BegunRuns(t)]_vars

\* C5 as claimed: count of a recurring Task equals the number of its
\* payload runs that completed successfully, in every reachable state.
C5_CountIsCompleted ==
    \A t \in TaskIds : T[t].delay > 0 => T[t].count = CompletedRuns(t)

\* C5 as amended: count of a recurring Task equals the number of its
\* payload runs that were begun: the completed ones plus one for every
\* loop whose last run is in progress, raised or was cancelled inside the
\* payload; so count is the number of completed runs when there is none.
C5_CountIsBegun ==
    \A t \in TaskIds :
        T[t].delay > 0 =>
            /\ T[t].count = BegunRuns(t)
            /\ T[t].count = CompletedRuns(t) + Cardinality(OpenRuns(t))
            /\ OpenRuns(t) = {} => T[t].count = CompletedRuns(t)

C5_Witness ==
    \E t \in TaskIds :
        /\ T[t].delay > 0
        /\ T[t].count = 2
        /\ CompletedRuns(t) = 1
        /\ \E l \in LoopsOf(t) : L[l].pc = "payload" /\ L[l].completed = 1

\* C6: the delay a Task keeps is 5 for a requested delay d with 0 < d < 5,
\* d for d >= 5 and 0 for d <= 0; so it is 0 or at least 5.
C6_DelayClamp ==
    \A t \in TaskIds :
        LET d == T[t].requested
            e == T[t].delay
        IN /\ (0 < d /\ d < 5) => e = 5
           /\ d >= 5 => e = d
           /\ d <= 0 => e = 0
           /\ e = 0 \/ e >= 5

C6_Witness ==
    \E t \in TaskIds :
        /\ T[t].requested = 3
        /\ T[t].delay = 5
        /\ \E l \in LoopsOf(t) : L[l].pc = "sleeping" /\ L[l].wake = now + 5

\* the calls the current sweep made on device d
CallsOn(d) == SelectSeq(calls, LAMBDA c : c.dev = d)

\* C7: a device whose ping left ping_failures above 3 in this sweep got
\* exactly one disconnect call, with unregister=False, and no call of the
\* sweep removes it: it is in the registry after every step of the sweep.
C7_OneDisconnectKeepsRegistered ==
    [][sweep.status = "running" =>
         \A d \in pingHigh' :
            /\ CallsOn(d)' = <<Call("disconnect", d, FALSE, "", 0)>>
            /\ d \in Range(registered_devices')]_vars

C7_Witness ==
    /\ sweep.status = "done"
    /\ \E d \in pingHigh :
          /\ D[d].ping_failures = 4
          /\ d \in Range(registered_devices)
          /\ Len(CallsOn(d)) = 1

\* C8: every device of the snapshot is checked in every sweep, also when
\* the check of one of them raises.
C8_SweepVisitsAll ==
    sweep.status \in {"done", "raised"} => visited = Range(sweep.snapshot)

\* C9: whenever a sweep can begin, every registered device whose
\* ping_failures is above 3 has been disconnected.
C9_HighFailuresDisconnected ==
    Idle => \A d \in Range(registered_devices) :
                D[d].ping_failures > 3 => D[d].cls = "DeviceDisconnected"

C9_Witness ==
    /\ sweep.status = "raised"
    /\ \E d \in pingHigh :
          /\ d \in Range(registered_devices)
          /\ D[d].ping_failures > 3
          /\ D[d].cls = "DeviceDisconnected"

\* C10: a generic device whose name read matched in this sweep has
\* ping_failures 0 and got exactly one connect call with this network
\* followed by exactly one poll call with its configured poll delay.
C10_MatchReconnectsAndPolls ==
    \A d \in matched :
        /\ D[d].ping_failures = 0
        /\ CallsOn(d) = <<Call("connect", d, FALSE, "self", 0),
                          Call("poll", d, FALSE, "", 10 * d)>>

C10_Witness ==
    /\ sweep.status = "done"
    /\ \E d \in matched : D[d].cls \in ConnectedClasses /\ Len(calls) >= 2

\* C11: in a sweep, a manual name read of a generic device that fails or
\* returns another name than the stored one changes nothing on the device,
\* makes no call, leaves it registered, and the failure is absorbed: the
\* sweep does not end by an exception and the monitor loop does not fail.
C11_ReadFailureAbsorbed ==
    [][sweep.status = "running" =>
         LET each == Iterated(sweep, registry)[sweep.idx] IN
         \A result \in {0} \cup Names, cls \in ConnectedClasses :
            (result # D[each].name /\ ReadCheck(each, result, cls)) =>
               /\ D'[each] = D[each]
               /\ calls' = calls
               /\ each \in Range(registered_devices')
               /\ sweep'.status # "raised"
               /\ monitor' # "failed"]_vars

\* C12: the loop of the started monitor ends only by a cancellation: it
\* never ends by an exception of a sweep.
C12_MonitorEndsOnlyByCancel == monitor \in {"notstarted", "sleeping", "sweeping", "cancelled"}

\* C13: the registry holds devices weakly: the registry, and so every
\* snapshot taken of it, contains only devices that still have a strong
\* owner; a device whose last owner released it is in no later snapshot,
\* without any unregister call.
C13_RegistryHoldsWeakly ==
    /\ Range(registered_devices) \subseteq strong
    /\ Range(sweep.snapshot) \subseteq strong

C13_Witness ==
    /\ sweep.status \in {"running", "done"}
    /\ sweep.snapshot # <<>>
    /\ \E d \in DevIds \ strong :
          /\ D[d].ping_failures > 0
          /\ d \notin Range(sweep.snapshot)

\* C14: after any sequence of register, unregister and release operations
\* registered_devices holds exactly the devices registered, not
\* unregistered since and still alive, each once; unregister_device of an
\* absent device leaves the registry unchanged.
C14_RegistryIsExpectedSet ==
    [][/\ Range(registered_devices') = expected'
       /\ Len(registered_devices') = Cardinality(expected')
       /\ \A d \in DevIds :
             (d \notin Range(registry) /\ UnregisterDevice(d)) =>
                 registry' = registry]_vars

C14_Witness ==
    /\ closing.status = "done"
    /\ \E d \in Range(closing.seen) : registered_devices = <<d>>
    /\ strong # DevIds

\* C15: the list Lite.disconnect iterates is a snapshot: the devices that
\* unregister themselves from the registry during the loop do not change
\* it, and every device of the snapshot is visited exactly once, in order.
C15_SnapshotIterated ==
    [][closing.status = "running" =>
         /\ closing'.snapshot = closing.snapshot
         /\ closing'.seen = SubSeq(closing.snapshot, 1, closing.idx)
         /\ closing'.status = "done" => closing'.seen = closing.snapshot]_vars

C15_Witness ==
    /\ closing.status = "done"
    /\ Len(closing.snapshot) = MaxDevices
    /\ closing.seen = closing.snapshot
    /\ registered_devices = <<>>

\* C16: each Task id appears at most once in Task.tasks, in every
\* reachable state.
C16_TaskIdOnce == Len(tasks) = Cardinality(Range(tasks))

\* C17: at most one invocation of the payload of a Task is in progress
\* at any time.
C17_RunsSerialized ==
    \A t \in TaskIds :
        Cardinality({l \in LoopsOf(t) : L[l].pc = "payload"}) <= 1

\* C19: stopAllTasks() never meets a registered Task without an asyncio
\* task, leaves the registry empty, leaves the asyncio tasks that are
\* already done as they are, and changes nothing at all when the registry
\* is empty, as in the second of two calls in a row.
C19_StopAllIdempotent ==
    [][StopAllTasks =>
         /\ \A t \in Range(tasks) : T[t].aio_task \in 1..nloops
         /\ number_of_tasks' = 0
         /\ \A l \in 1..nloops : LoopDone(l) => L'[l] = L[l]
         /\ number_of_tasks = 0 => UNCHANGED taskVars]_vars

C19_Witness ==
    /\ number_of_tasks = 0
    /\ \E l \in stoppedLoops :
          /\ T[L[l].task].aio_task = l
          /\ L[l].pc \in {"finished", "failed"}
          /\ ~L[l].must_cancel

\* C18: a step of a loop of Task A (a run, a return or a failure of its
\* payload) and a start of Task A leave every other Task and the loops of
\* every other Task unchanged; a one-shot loop whose payload returns is
\* finished; the loop of a recurring Task that has not failed itself is
\* not done; the count of a recurring Task is the number of its own runs.
C18_TasksDoNotInterfere ==
    [][/\ \A a \in 1..nloops :
             (Run(a) \/ PayloadReturn(a) \/ PayloadRaise(a)) =>
                 \A b \in DOMAIN T \ {L[a].task} :
                     /\ T'[b] = T[b]
                     /\ \A l \in LoopsOf(b) : L'[l] = L[l]
       /\ \A a \in DOMAIN T :
             Start(a) =>
                 \A b \in DOMAIN T \ {a} :
                     /\ T'[b] = T[b]
                     /\ \A l \in LoopsOf(b) : L'[l] = L[l]
       /\ \A l \in 1..nloops :
             (T[L[l].task].delay = 0 /\ PayloadReturn(l)) => L'[l].pc = "finished"
       /\ \A l \in 1..nloops' :
             (T'[L'[l].task].delay > 0 /\ L'[l].pc # "failed") => ~LoopDone(l)'
       /\ \A t \in DOMAIN T :
             T'[t].delay > 0 => T'[t].count = BegunRuns(t)']_vars

C18_Witness ==
    \E a, b \in 1..nloops :
        /\ L[a].task # L[b].task
        /\ L[a].pc = "failed"
        /\ T[L[b].task].delay > 0
        /\ T[L[b].task].count >= 2
        /\ L[b].pc = "sleeping"
        /\ ~done(L[b].task)

\* s is in descending order of next_execution
Descending(s) ==
    \A i \in 1..(Len(s) - 1) :
        T[s[i]].next_execution >= T[s[i + 1]].next_execution

Occurrences(s, t) == Cardinality({i \in 1..Len(s) : s[i] = t})

\* C20: for Tasks A and B with A.next_execution < B.next_execution the
\* comparison gives B < A and not A < B; a sorted list of Tasks holds the
\* Tasks of the list it was made from, in descending order of
\* next_execution, the soonest-due Task last.
C20_InvertedOrder ==
    /\ \A a, b \in DOMAIN T :
          T[a].next_execution < T[b].next_execution =>
              lt(T[b], T[a]) /\ ~lt(T[a], T[b])
    /\ listing.status = "sorted" =>
          /\ Descending(listing.items)
          /\ \A t \in ListIds :
                Occurrences(listing.items, t) = Occurrences(listing.input, t)
          /\ \A i \in 1..Len(listing.items) :
                T[listing.items[Len(listing.items)]].next_execution
                    <= T[listing.items[i]].next_execution

C20_Witness ==
    /\ listing.status = "sorted"
    /\ Len(listing.input) = MaxList
    /\ \A i \in 1..(MaxList - 1) :
          T[listing.input[i]].next_execution < T[listing.input[i + 1]].next_execution
    /\ \A i \in 1..MaxList : listing.items[i] = listing.input[MaxList + 1 - i]

\* C21: next_execution of a Task never decreases, from the value seeded
\* by the constructor onward, and only the return of a payload of the
\* Task's own loop changes it.
C21_NextExecutionMonotone ==
    [][\A t \in TaskIds :
         /\ T'[t].next_execution >= T[t].next_execution
         /\ T'[t].next_execution # T[t].next_execution =>
                \E l \in LoopsOf(t) : PayloadReturn(l)]_vars

\* the steps the loop of a recurring Task can take: it is suspended in
\* the payload and in the sleep, nowhere else
LoopSteps ==
    {<<"created", "payload">>, <<"payload", "sleeping">>,
     <<"sleeping", "payload">>, <<"payload", "failed">>}

\* C22: the loop of a recurring Task that was started once is suspended
\* only in the payload and in the sleep after it; a run after the first
\* starts at least `delay` after the end of the run before it; and when a
\* run has completed, next_execution - previous_execution >= delay.
C22_SleepBetweenRuns ==
    [][\A l \in 1..nloops :
         LET t == L[l].task IN
         T[t].delay > 0 =>
            /\ L'[l].pc # L[l].pc => <<L[l].pc, L'[l].pc>> \in LoopSteps
            /\ (L[l].pc = "sleeping" /\ Run(l)) =>
                   now >= T[t].previous_execution + T[t].execution_time
                              + T[t].delay
            /\ PayloadReturn(l) =>
                   /\ L'[l].pc = "sleeping"
                   /\ T'[t].next_execution - T'[t].previous_execution
                          >= T[t].delay]_vars

C22_Witness ==
    \E l \in 1..nloops :
        LET t == L[l].task IN
        /\ T[t].delay > 0
        /\ L[l].begun = 2
        /\ L[l].pc = "payload"
        /\ T[t].previous_execution # 0
        /\ L[l].start_time >= T[t].previous_execution + T[t].execution_time
                                  + T[t].delay

\* C23: when the payload of a recurring Task returns, a warning is logged
\* exactly when the smoothed latency is above 60, and with or without it
\* the run is counted as completed, the timing fields are written and the
\* loop sleeps for `delay`; a loop ends as failed only when its payload
\* raises.
C23_HighLatencyAdvisory ==
    [][\A l \in 1..nloops :
         LET t == L[l].task IN
         T[t].delay > 0 =>
            /\ PayloadReturn(l) =>
                   /\ L'[l].warnings - L[l].warnings =
                          (IF Above(T[t].average_latency, high_latency)
                           THEN 1 ELSE 0)
                   /\ L'[l].pc = "sleeping"
                   /\ L'[l].wake = now + T[t].delay
                   /\ L'[l].completed = L[l].completed + 1
                   /\ T'[t].previous_execution = L[l].start_time
                   /\ T'[t].execution_time = now - L[l].start_time
                   /\ T'[t].next_execution = now + T[t].delay
                   /\ T'[t].count = T[t].count
            /\ (L[l].pc # "failed" /\ L'[l].pc = "failed") => PayloadRaise(l)
            /\ ~PayloadReturn(l) => L'[l].warnings = L[l].warnings]_vars

C23_Witness ==
    \E l \in 1..nloops :
        /\ T[L[l].task].delay > 0
        /\ L[l].warnings >= 1
        /\ L[l].begun = 2
        /\ L[l].pc = "payload"
        /\ Above(T[L[l].task].average_latency, high_latency)

\* C24: Task.tasks grows only by start(), by exactly the Task started,
\* and shrinks only by becoming empty in stopAllTasks() or
\* clean_tasklist(); the end of a loop (finished, failed or cancelled)
\* leaves it as it is. So number_of_tasks() counts the start() calls
\* since the last clear, whatever became of the loops.
C24_RegistryCountsStarts ==
    [][/\ \A t \in TaskIds :
             Start(t) => /\ tasks' = Append(tasks, t)
                         /\ number_of_tasks' = number_of_tasks + 1
       /\ number_of_tasks' > number_of_tasks => \E t \in TaskIds : Start(t)
       /\ tasks' # tasks /\ number_of_tasks' <= number_of_tasks =>
             /\ number_of_tasks' = 0
             /\ StopAllTasks \/ CleanTasklist
       /\ \A l \in 1..nloops :
             (~LoopDone(l) /\ LoopDone(l)') => tasks' = tasks]_vars

C24_Witness ==
    /\ number_of_tasks = 2
    /\ nloops = 2
    /\ \A l \in 1..nloops :
          /\ L[l].task \in Range(tasks)
          /\ L[l].pc \in {"finished", "failed"}
====
